---- MODULE Spec2Model ----
(***************************************************************************)
(* A model of multiping: the host statistics fold (src/src/lib.rs), the    *)
(* ICMP decoder (src/src/icmp.rs) and the sender / receiver / aggregator   *)
(* threads of src/src/main.rs.                                             *)
(*                                                                         *)
(* Seven specifications share the variables:                               *)
(*   SpecFold   - update_host_info applied to a fresh table, the events    *)
(*                drawn from bounded sets (the loop of display_loop);      *)
(*   SpecDecode - ICMPv4Message::try_from / ICMPv6Message::try_from        *)
(*                applied to byte buffers drawn from a bounded set;        *)
(*   SpecEncode - construct_echo_request_v4 / _v6 applied to arguments     *)
(*                drawn from bounded sets, and the result decoded;         *)
(*   SpecDisplay- update_display applied to a host whose counters are      *)
(*                drawn from the u32 range;                                *)
(*   SpecChecksum - populate_checksum, loop by loop, on header slices      *)
(*                drawn from a bounded set;                                *)
(*   SpecReceive- one iteration of the receiver thread on a datagram and   *)
(*                a clock reading drawn from bounded sets;                 *)
(*   Spec       - the running program: sender thread, receiver thread,     *)
(*                the mpsc channel and the aggregator.                     *)
(*                                                                         *)
(* Widths.  TLC's integers are 32 bits wide, so a u64 is modelled as a     *)
(* word of U64Bits bits: arithmetic on it wraps modulo 2^U64Bits in a      *)
(* build without overflow checks and panics in a build with them.  The    *)
(* u32 counters pings_sent and successful grow by one per event and stay   *)
(* far below 2^32 within every bound explored here; they are naturals.     *)
(* The u32 arithmetic on them (the loss figure) is on words of U32Bits     *)
(* bits, wide enough for the counters the event bounds reach.              *)
(* sum_squared_times_ms is an f64 number of ms^2; the model keeps it       *)
(* exactly, in units of us^2 (10^-6 ms^2).                                 *)
(***************************************************************************)
EXTENDS Integers, Sequences, FiniteSets, TLC

VARIABLES
    hinfos,           \* display_loop's Vec<HostInfo>; <<>> once it is dropped
    agg_panicked,     \* the main thread panicked inside display_loop
    screen,           \* the rows update_display wrote last, or NotYet
    overflow_checks,  \* the build: TRUE = overflow checks on (debug profile)
    log,              \* SpecFold's history: the updates applied, with producer
    args,             \* args.hosts: what each host string resolves to
    send_hosts,       \* send_enum_host_infos, the sender thread's clone
    recv_hosts,       \* recv_enum_host_infos, the receiver thread's clone
    chan,             \* the mpsc channel: updates sent and not yet received
    wire,             \* replies under way: the socket can still deliver them
    main_pc,          \* where the main thread is
    send_pc,          \* where the sender thread is
    send_i,           \* the sender's position in its host list (0-based)
    send_res,         \* the result of the sender's last send_ping
    recv_pc,          \* where the receiver thread is
    recv_res,         \* the I/O error of the receiver's last receive_ping
    socket,           \* the ICMP socket: "none", "open" or "closed"
    now,              \* the system clock, in microseconds since the epoch
    nsent,            \* history: datagrams handed to the socket by send_to
    nstray,           \* history: unrequested datagrams and failed receives
    msgbytes,         \* SpecDecode: the buffer handed to try_from
    family,           \* SpecDecode: "v4" or "v6"
    decoded,          \* SpecDecode: the outcome of try_from, or NotYet
    echo_args,        \* SpecEncode: the arguments of construct_echo_request_*
    cksum_total,      \* SpecChecksum: `total` of populate_checksum
    cksum_pc          \* SpecChecksum: where populate_checksum is

vars == <<hinfos, agg_panicked, screen, overflow_checks, log, args, send_hosts,
          recv_hosts, chan, wire, main_pc, send_pc, send_i, send_res, recv_pc,
          recv_res, socket, now, nsent, nstray, msgbytes, family, decoded,
          echo_args, cksum_total, cksum_pc>>

foldVars == <<hinfos, agg_panicked, screen, overflow_checks, log>>
sysVars == <<args, send_hosts, recv_hosts, chan, wire, main_pc, send_pc,
             send_i, send_res, recv_pc, recv_res, socket, now, nsent, nstray>>
sumVars == <<cksum_total, cksum_pc>>
decVars == <<msgbytes, family, decoded, echo_args, cksum_total, cksum_pc>>

----------------------------------------------------------------------------
(* Bounds of the model.                                                    *)

\* A u64 is a word of U64Bits bits.
U64Bits == 6

\* SpecFold applies at most MaxEvents updates.
MaxEvents == 4

U64Mod == 2 ^ U64Bits
U64Max == U64Mod - 1

\* The u32 arithmetic of the loss figure is on words of U32Bits bits.
U32Bits == 10

U32Mod == 2 ^ U32Bits
U32Max == U32Mod - 1

----------------------------------------------------------------------------
(* Option<T>                                                               *)

None == [some |-> FALSE]
Some(x) == [some |-> TRUE, val |-> x]

(* std::io::ErrorKind: the kinds the model draws from.                     *)
ErrorKinds == {"PermissionDenied", "NetworkUnreachable"}

----------------------------------------------------------------------------
(* HostInfo and StatusUpdate (src/src/lib.rs)                              *)

\* HostInfo::new: the record of a host that resolved to address `host`.
NewHostInfo(host) ==
    [ host                 |-> host,
      pings_sent           |-> 0,
      latest_time          |-> None,
      sum_times            |-> 0,
      sum_squared_times_ms |-> 0,
      min_time             |-> None,
      max_time             |-> None,
      successful           |-> 0,
      last_error           |-> None ]

\* enum StatusUpdate; the host index i is 0-based as in the source.
Sent(i) == [type |-> "Sent", i |-> i]
Received(i, latency) == [type |-> "Received", i |-> i, latency |-> latency]
Error(i, errno) == [type |-> "Error", i |-> i, errno |-> errno]

\* `hinfos[*i].sum_times += *latency` overflows the u64.
SumOverflows(h, latency) == h.sum_times + latency > U64Max

\* The min_time update of the Received arm.
MinTime(min_time, latency) ==
    IF min_time.some
    THEN (IF min_time.val > latency THEN Some(latency) ELSE min_time)
    ELSE Some(latency)

\* MaxTime with its comparison the wrong way round.
MaxTime_Inverted(max_time, latency) ==
    IF max_time.some
    THEN (IF max_time.val > latency THEN Some(latency) ELSE max_time)
    ELSE Some(latency)

\* The max_time update of the Received arm.
MaxTime(max_time, latency) ==
    IF max_time.some
    THEN (IF max_time.val < latency THEN Some(latency) ELSE max_time)
    ELSE Some(latency)

\* StatusUpdate::Sent(i) => hinfos[*i].pings_sent += 1
UpdateSent(h) == [h EXCEPT !.pings_sent = @ + 1]

\* UpdateReceived without `hinfos[*i].last_error = None`.
UpdateReceived_KeepsError(h, latency) ==
    [h EXCEPT !.successful = @ + 1,
              !.latest_time = Some(latency),
              !.sum_times = (@ + latency) % U64Mod,
              !.sum_squared_times_ms = @ + latency * latency,
              !.min_time = MinTime(@, latency),
              !.max_time = MaxTime(@, latency)]

\* The Received arm where it runs to its end (the sum wraps when it
\* overflows in a build without overflow checks).
UpdateReceived(h, latency) ==
    [h EXCEPT !.last_error = None,
              !.successful = @ + 1,
              !.latest_time = Some(latency),
              !.sum_times = (@ + latency) % U64Mod,
              !.sum_squared_times_ms = @ + latency * latency,
              !.min_time = MinTime(@, latency),
              !.max_time = MaxTime(@, latency)]

\* UpdateError that also forgets the latest latency.
UpdateError_ClearsLatest(h, errno) ==
    [h EXCEPT !.last_error = Some(errno), !.latest_time = None]

\* UpdateError that also counts the failed ping as sent.
UpdateError_CountsPing(h, errno) ==
    [h EXCEPT !.last_error = Some(errno), !.pings_sent = @ + 1]

\* StatusUpdate::Error(i, errno) => hinfos[*i].last_error = Some(*errno)
UpdateError(h, errno) == [h EXCEPT !.last_error = Some(errno)]

\* update_host_info(update, hinfos) in a build with (checks) or without
\* overflow checks.  The result is the table after the call, or a panic:
\* the panic unwinds display_loop, which owns the table, and drops it.
update_host_info(update, hs, checks) ==
    LET k == update.i + 1 IN
    CASE update.type = "Sent" ->
           [panicked |-> FALSE, hinfos |-> [hs EXCEPT ![k] = UpdateSent(@)]]
      [] update.type = "Received" ->
           IF checks /\ SumOverflows(hs[k], update.latency)
           THEN [panicked |-> TRUE, hinfos |-> <<>>]
           ELSE [panicked |-> FALSE,
                 hinfos |-> [hs EXCEPT ![k] = UpdateReceived(@, update.latency)]]
      [] update.type = "Error" ->
           [panicked |-> FALSE,
            hinfos |-> [hs EXCEPT ![k] = UpdateError(@, update.errno)]]

----------------------------------------------------------------------------
(* The statistics and the table rows (HostInfo::average, HostInfo::jitter  *)
(* and the format_* functions of src/src/lib.rs).  An f32 is NaN, infinite *)
(* or a fraction num / den kept exactly; the square root of jitter is kept *)
(* as sqrt(num) / den.                                                     *)

NaN == [float |-> "NaN"]
Infinity == [float |-> "inf"]
Fraction(num, den) == [float |-> "finite", num |-> num, den |-> den]

\* x / y on floats, for x >= 0 and y >= 0.
FloatDiv(x, y) ==
    IF y = 0 THEN (IF x = 0 THEN NaN ELSE Infinity) ELSE Fraction(x, y)

\* self.sum_times as f32 / (self.successful as f32 * 1000f32), in ms.
average(h) == FloatDiv(h.sum_times, h.successful * 1000)

\* f32::sqrt(sum_squared_times_ms / successful - average^2), in ms
\* (sum_squared_times_ms is kept in us^2): sqrt(num) / den, or NaN when an
\* operand is NaN or the difference is negative.
jitter(h) ==
    IF average(h).float # "finite" THEN NaN
    ELSE LET num == h.sum_squared_times_ms * h.successful
                      - h.sum_times * h.sum_times
             den == h.successful * 1000
         IN IF num < 0 THEN NaN ELSE [float |-> "sqrt", num |-> num, den |-> den]

\* a * a <= n, for a >= 0, without forming the square.
SquareAtMost(a, n) == a = 0 \/ a <= n \div a

\* `num as u64` of a float that is not NaN: the integer part; infinity
\* saturates.
FloatAsU64(x) ==
    CASE x.float = "inf" -> U64Max
      [] x.float = "finite" -> x.num \div x.den
      [] x.float = "sqrt" ->
           CHOOSE r \in 0 .. (U64Max \div 1000) + 1 :
             /\ SquareAtMost(r * x.den, x.num)
             /\ ~SquareAtMost((r + 1) * x.den, x.num)

\* fn not_nan(num: f32) -> Option<u64>
not_nan(num) == IF num.float = "NaN" THEN None ELSE Some(FloatAsU64(num))

\* fn to_sec(microseconds: Option<u64>) -> Option<u64>
to_sec(microseconds) ==
    IF microseconds.some THEN Some(microseconds.val \div 1000) ELSE None

\* A cell of the table: its text without styling, and the style it has when
\* colours are on.  "- " is the cell without data.
NoDataCell == [text |-> "- ", style |-> "red"]
TimeCell(ms) == [text |-> "ms", value |-> ms, style |-> "blue"]
PercentCell(percent, style) == [text |-> "%", value |-> percent, style |-> style]

\* fn format_time_cell(colour, stat_spaces, stat: Option<u64>)
format_time_cell(stat) == IF stat.some THEN TimeCell(stat.val) ELSE NoDataCell

\* ((total - suc) * 100) / total on u32: the product wraps in a build
\* without overflow checks and panics in a build with them.
LossPercent(suc, total, checks) ==
    LET product == (total - suc) * 100 IN
    IF product > U32Max /\ checks THEN [panicked |-> TRUE]
    ELSE [panicked |-> FALSE, percent |-> (product % U32Mod) \div total]

\* fn format_percent_cell(stat_spaces, suc, total): the text of the cell.
format_percent_cell(suc, total, checks) ==
    IF total = 0 \/ suc > total THEN [panicked |-> FALSE, nodata |-> TRUE]
    ELSE LET loss == LossPercent(suc, total, checks) IN
         IF loss.panicked THEN [panicked |-> TRUE]
         ELSE [panicked |-> FALSE, nodata |-> FALSE, percent |-> loss.percent]

\* fn format_colour_percent(colour, stat_spaces, suc, total)
format_colour_percent(suc, total, checks) ==
    LET cell_string == format_percent_cell(suc, total, checks) IN
    IF cell_string.panicked THEN [panicked |-> TRUE]
    ELSE IF total = 0 \/ suc > total
    THEN [panicked |-> FALSE, cell |-> NoDataCell]
    ELSE LET loss == LossPercent(suc, total, checks) IN
         IF loss.panicked THEN [panicked |-> TRUE]
         ELSE [panicked |-> FALSE,
               cell |-> PercentCell(cell_string.percent,
                          IF loss.percent < 10 THEN "green"
                          ELSE IF loss.percent <= 50 THEN "yellow"
                          ELSE "red")]

\* fn format_host_info(host, colour, host_spaces, stat_spaces): the row of
\* a host, which is its error when it has one.
format_host_info(host, checks) ==
    IF host.last_error.some
    THEN [panicked |-> FALSE,
          row |-> [host |-> host.host, error |-> host.last_error.val]]
    ELSE LET loss == format_colour_percent(host.successful, host.pings_sent,
                                           checks)
         IN IF loss.panicked THEN [panicked |-> TRUE]
            ELSE [panicked |-> FALSE,
                  row |-> [host |-> host.host,
                           cells |-> << format_time_cell(to_sec(host.latest_time)),
                                        format_time_cell(to_sec(host.min_time)),
                                        format_time_cell(not_nan(average(host))),
                                        format_time_cell(to_sec(host.max_time)),
                                        format_time_cell(not_nan(jitter(host))),
                                        loss.cell >>]]

\* fn update_display(term, hinfos, max_host_width, colour) where the terminal
\* takes every write: the rows written, or a panic.
update_display(hs, checks) ==
    LET lines == [k \in DOMAIN hs |-> format_host_info(hs[k], checks)] IN
    IF \E k \in DOMAIN hs : lines[k].panicked
    THEN [panicked |-> TRUE]
    ELSE [panicked |-> FALSE, rows |-> [k \in DOMAIN hs |-> lines[k].row]]

----------------------------------------------------------------------------
(* The variables a specification does not use stay at these values.        *)

SysIdle ==
    /\ args = <<>>
    /\ send_hosts = <<>>
    /\ recv_hosts = <<>>
    /\ chan = <<>>
    /\ wire = {}
    /\ main_pc = "idle"
    /\ send_pc = "idle"
    /\ send_i = 0
    /\ send_res = "none"
    /\ recv_pc = "idle"
    /\ recv_res = "none"
    /\ socket = "none"
    /\ now = 0
    /\ nsent = 0
    /\ nstray = 0

NotYet == [tag |-> "NotYet"]

SumIdle ==
    /\ cksum_total = 0
    /\ cksum_pc = "idle"

DecIdle ==
    /\ msgbytes = <<>>
    /\ family = "v4"
    /\ decoded = NotYet
    /\ echo_args = NotYet
    /\ SumIdle

----------------------------------------------------------------------------
(* SpecFold: the loop of display_loop, `for update in rx {                 *)
(* update_host_info(&update, &mut hinfos) }`, fed by the two producers.    *)
(* The sender thread sends Sent and Error (main.rs:66,68), the receiver    *)
(* thread sends Received (main.rs:83).                                     *)

\* The addresses of the hosts of SpecFold's table.
FoldHosts == <<1, 2>>

\* The latencies SpecFold draws from: small ones and the largest u64.
FoldLatencies == {0, 1, U64Max}

HostIndexes(hs) == 0 .. (Len(hs) - 1)

SenderEvents(hs) ==
    {Sent(i) : i \in HostIndexes(hs)}
      \cup {Error(i, e) : i \in HostIndexes(hs), e \in ErrorKinds}

ReceiverEvents(hs) ==
    {Received(i, l) : i \in HostIndexes(hs), l \in FoldLatencies}

\* The terminal after update_display wrote `rows`.
Drawn(rows) == [tag |-> "Drawn", rows |-> rows]

\* The body of display_loop's loop: update_host_info(&update, &mut hinfos),
\* then update_display(&term, &hinfos, ..).  A panic of either unwinds the
\* main thread: the table and the Term are dropped.
display_loop_body(update, hs, checks) ==
    LET r == update_host_info(update, hs, checks)
        d == IF r.panicked THEN [panicked |-> TRUE]
             ELSE update_display(r.hinfos, checks)
    IN IF d.panicked
       THEN [panicked |-> TRUE, hinfos |-> <<>>, screen |-> NotYet]
       ELSE [panicked |-> FALSE, hinfos |-> r.hinfos, screen |-> Drawn(d.rows)]

FoldInit ==
    /\ hinfos = [k \in 1 .. Len(FoldHosts) |-> NewHostInfo(FoldHosts[k])]
    /\ agg_panicked = FALSE
    /\ screen = NotYet
    /\ overflow_checks \in BOOLEAN
    /\ log = <<>>
    /\ SysIdle
    /\ DecIdle

\* One iteration of display_loop's loop on the update `ev` of `producer`.
ApplyUpdate(producer, ev) ==
    LET r == display_loop_body(ev, hinfos, overflow_checks) IN
    /\ hinfos' = r.hinfos
    /\ agg_panicked' = r.panicked
    /\ screen' = r.screen
    /\ log' = Append(log, [from |-> producer, ev |-> ev])
    /\ UNCHANGED overflow_checks

FoldSender ==
    /\ ~agg_panicked
    /\ Len(log) < MaxEvents
    /\ \E ev \in SenderEvents(hinfos) : ApplyUpdate("sender", ev)
    /\ UNCHANGED <<sysVars, decVars>>

FoldReceiver ==
    /\ ~agg_panicked
    /\ Len(log) < MaxEvents
    /\ \E ev \in ReceiverEvents(hinfos) : ApplyUpdate("receiver", ev)
    /\ UNCHANGED <<sysVars, decVars>>

FoldNext == FoldSender \/ FoldReceiver

SpecFold == FoldInit /\ [][FoldNext]_vars

----------------------------------------------------------------------------
(* The ICMP decoder (src/src/icmp.rs).  A buffer is a sequence of bytes;   *)
(* the source's msgbytes[j] is msgbytes[j + 1] here.  An index or a slice  *)
(* past the end of the buffer panics.                                      *)

Ok(v) == [tag |-> "Ok", val |-> v]
Err(e) == [tag |-> "Err", err |-> e]
Panic == [tag |-> "Panic"]

\* The code enums, in declaration order (the n-th variant is code n - 1).
DestinationUnreachableCode ==
    << "NetworkUnreachable", "HostUnreachable", "ProtocolUnreachable",
       "PortUnreachable", "FragmentationRequired", "SourceRouteFailed",
       "NetworkUnknown", "DestHostUnknown", "SourceHostIsolated",
       "NetAdministrativelyProhibited", "HostAdministrativelyProhibited",
       "NetworkUnreachableForToS", "HostUnreachableForToS",
       "CommAdministrativelyProhibited", "HostPrecedenceViolation",
       "PrecedenceCuttoffInEffect" >>

RedirectMsgCode == <<"Network", "Host", "ToSAndNetwork", "ToSAndHost">>

TimeExceededCode == <<"ExpiredInTransit", "FragmentReassemblyTimeExceeded">>

BadIPHeaderCode ==
    <<"PointerIndicatesError", "MissingRequiredOption", "BadLength">>

DestinationUnreachableV6Code ==
    << "NoRouteToDestination", "CommAdministrativelyProhibited",
       "BeyondScopeOfSourceAddress", "AddressUnreachable", "PortUnreachable",
       "SourceAddressFailedIngressEgressPolicy", "RejectRouteToDestination",
       "ErrorInSourceRoutingHeader" >>

ParamProblemCode ==
    << "ErroneousHeaderField", "UnrecognisedNextHeaderType",
       "UnrecognisedIPv6Option" >>

\* be_u16 reading the two bytes in little-endian order.
be_u16_LittleEndian(bytes, start) ==
    IF start + 2 > Len(bytes) THEN [tag |-> "Panic"]
    ELSE [tag |-> "Ok", val |-> bytes[start + 2] * 256 + bytes[start + 1]]

\* Construct a big-endian u16 from 2 bytes.
be_u16(bytes, start) ==
    IF start + 2 > Len(bytes) THEN Panic
    ELSE Ok(bytes[start + 1] * 256 + bytes[start + 2])

\* be_u32 reading the four bytes in little-endian order.
be_u32_LittleEndian(bytes, start) ==
    IF start + 4 > Len(bytes) THEN [tag |-> "Panic"]
    ELSE [tag |-> "Ok",
          val |-> ((bytes[start + 4] * 256 + bytes[start + 3]) * 256
                     + bytes[start + 2]) * 256 + bytes[start + 1]]

\* Construct a big-endian u32 from four bytes.
be_u32(bytes, start) ==
    IF start + 4 > Len(bytes) THEN Panic
    ELSE Ok(((bytes[start + 1] * 256 + bytes[start + 2]) * 256
               + bytes[start + 3]) * 256 + bytes[start + 4])

\* msgbytes[j]
ByteAt(bytes, j) == IF j + 1 > Len(bytes) THEN Panic ELSE Ok(bytes[j + 1])

\* msgbytes[8..].to_vec()
From8(bytes) ==
    IF 8 > Len(bytes) THEN Panic ELSE Ok(SubSeq(bytes, 9, Len(bytes)))

parse_unreachable_code(value) ==
    CASE value = 0 -> Ok("NetworkUnreachable")
      [] value = 1 -> Ok("HostUnreachable")
      [] value = 2 -> Ok("ProtocolUnreachable")
      [] value = 3 -> Ok("PortUnreachable")
      [] value = 4 -> Ok("FragmentationRequired")
      [] value = 5 -> Ok("SourceRouteFailed")
      [] value = 6 -> Ok("NetworkUnknown")
      [] value = 7 -> Ok("DestHostUnknown")
      [] value = 8 -> Ok("SourceHostIsolated")
      [] value = 9 -> Ok("NetAdministrativelyProhibited")
      [] value = 10 -> Ok("HostAdministrativelyProhibited")
      [] value = 11 -> Ok("NetworkUnreachableForToS")
      [] value = 12 -> Ok("HostUnreachableForToS")
      [] value = 13 -> Ok("CommAdministrativelyProhibited")
      [] value = 14 -> Ok("HostPrecedenceViolation")
      [] value = 15 -> Ok("PrecedenceCuttoffInEffect")
      [] OTHER -> Err("UnknownCode")

\* parse_redirect_code with one arm too many.
parse_redirect_code_ExtraArm(value) ==
    CASE value = 0 -> Ok("Network")
      [] value = 1 -> Ok("Host")
      [] value = 2 -> Ok("ToSAndNetwork")
      [] value = 3 -> Ok("ToSAndHost")
      [] value = 4 -> Ok("ToSAndHost")
      [] OTHER -> Err("UnknownCode")

parse_redirect_code(value) ==
    CASE value = 0 -> Ok("Network")
      [] value = 1 -> Ok("Host")
      [] value = 2 -> Ok("ToSAndNetwork")
      [] value = 3 -> Ok("ToSAndHost")
      [] OTHER -> Err("UnknownCode")

\* The code match of the arm `11 =>` of ICMPv4Message::try_from.
time_exceeded_code_v4(value) ==
    CASE value = 0 -> Ok("ExpiredInTransit")
      [] value = 1 -> Ok("FragmentReassemblyTimeExceeded")
      [] OTHER -> Err("UnknownCode")

\* The code match of the arm `12 =>` of ICMPv4Message::try_from.
bad_ip_header_code_v4(value) ==
    CASE value = 0 -> Ok("PointerIndicatesError")
      [] value = 1 -> Ok("MissingRequiredOption")
      [] value = 2 -> Ok("BadLength")
      [] OTHER -> Err("UnknownCode")

\* impl TryFrom<u8> for DestinationUnreachableV6Code
DestinationUnreachableV6Code_try_from(code) ==
    CASE code = 0 -> Ok("NoRouteToDestination")
      [] code = 1 -> Ok("CommAdministrativelyProhibited")
      [] code = 2 -> Ok("BeyondScopeOfSourceAddress")
      [] code = 3 -> Ok("AddressUnreachable")
      [] code = 4 -> Ok("PortUnreachable")
      [] code = 5 -> Ok("SourceAddressFailedIngressEgressPolicy")
      [] code = 6 -> Ok("RejectRouteToDestination")
      [] code = 7 -> Ok("ErrorInSourceRoutingHeader")
      [] OTHER -> Err("UnknownCode")

\* impl TryFrom<u8> for TimeExceededCode
TimeExceededCode_try_from(code) ==
    CASE code = 0 -> Ok("ExpiredInTransit")
      [] code = 1 -> Ok("FragmentReassemblyTimeExceeded")
      [] OTHER -> Err("UnknownCode")

\* impl TryFrom<u8> for ParamProblemCode
ParamProblemCode_try_from(code) ==
    CASE code = 0 -> Ok("ErroneousHeaderField")
      [] code = 1 -> Ok("UnrecognisedNextHeaderType")
      [] code = 2 -> Ok("UnrecognisedIPv6Option")
      [] OTHER -> Err("UnknownCode")

\* Ok(ICMPv4Message { icmpv4_type, icmpv4_checksum: be_u16(msgbytes, 2),
\* icmpv4_data: msgbytes[8..].to_vec() }), where `fields` are the reads the
\* type's fields need (each Ok or Panic) and icmpv4_type is built from them.
V4Message(bytes, fields, icmpv4_type) ==
    IF \/ \E f \in fields : f.tag = "Panic"
       \/ be_u16(bytes, 2).tag = "Panic"
       \/ From8(bytes).tag = "Panic"
    THEN Panic
    ELSE Ok([ icmpv4_type     |-> icmpv4_type,
              icmpv4_checksum |-> be_u16(bytes, 2).val,
              icmpv4_data     |-> From8(bytes).val ])

\* The arms of ICMPv4Message::try_from that parse a code first: a code that
\* is not known returns before any other byte is read.
V4WithCode(bytes, parsed, fields, icmpv4_type) ==
    IF parsed.tag # "Ok" THEN parsed
    ELSE V4Message(bytes, fields, icmpv4_type)

\* The identifier, sequence number and three timestamps of types 13 and 14.
V4TimestampFields(bytes) ==
    { be_u16(bytes, 4), be_u16(bytes, 6), be_u32(bytes, 8),
      be_u32(bytes, 12), be_u32(bytes, 16) }

V4TimestampType(kind, bytes) ==
    [ kind         |-> kind,
      identifier   |-> be_u16(bytes, 4).val,
      sequence_num |-> be_u16(bytes, 6).val,
      ts_originate |-> be_u32(bytes, 8).val,
      ts_receive   |-> be_u32(bytes, 12).val,
      ts_transmit  |-> be_u32(bytes, 16).val ]

\* The outcome `parsed` of parsing the code byte msgbytes[1], where there is
\* such a byte.
CodeOf(bytes, parsed) ==
    IF ByteAt(bytes, 1).tag = "Panic" THEN Panic ELSE parsed

\* impl TryFrom<&[u8]> for ICMPv4Message
ICMPv4Message_try_from(bytes) ==
    IF ByteAt(bytes, 0).tag = "Panic" THEN Panic
    ELSE
    LET t == bytes[1] IN
    CASE t = 0 ->
           V4Message(bytes, {be_u16(bytes, 4), be_u16(bytes, 6)},
                     [ kind         |-> "EchoReply",
                       identifier   |-> be_u16(bytes, 4).val,
                       sequence_num |-> be_u16(bytes, 6).val ])
      [] t = 3 ->
           LET code == CodeOf(bytes, parse_unreachable_code(bytes[2])) IN
           V4WithCode(bytes, code, {ByteAt(bytes, 5), be_u16(bytes, 6)},
                      [ kind         |-> "DestinationUnreachable",
                        code         |-> code.val,
                        length       |-> ByteAt(bytes, 5).val,
                        next_hop_mtu |-> be_u16(bytes, 6).val ])
      [] t = 4 ->
           V4Message(bytes, {}, [kind |-> "SourceQuench"])
      [] t = 5 ->
           LET code == CodeOf(bytes, parse_redirect_code(bytes[2])) IN
           V4WithCode(bytes, code, {be_u32(bytes, 4)},
                      [ kind    |-> "RedirectMessage",
                        code    |-> code.val,
                        address |-> be_u32(bytes, 4).val ])
      [] t = 6 ->
           V4Message(bytes, {}, [kind |-> "SourceQuench"])
      [] t = 8 ->
           V4Message(bytes, {be_u16(bytes, 4), be_u16(bytes, 6)},
                     [ kind         |-> "EchoRequest",
                       identifier   |-> be_u16(bytes, 4).val,
                       sequence_num |-> be_u16(bytes, 6).val ])
      [] t = 9 ->
           V4Message(bytes, {}, [kind |-> "RouterAdvertisement"])
      [] t = 10 ->
           V4Message(bytes, {}, [kind |-> "RouterSolicitation"])
      [] t = 11 ->
           LET code == CodeOf(bytes, time_exceeded_code_v4(bytes[2])) IN
           V4WithCode(bytes, code, {},
                      [kind |-> "TimeExceeded", code |-> code.val])
      [] t = 12 ->
           LET code == CodeOf(bytes, bad_ip_header_code_v4(bytes[2])) IN
           V4WithCode(bytes, code, {},
                      [kind |-> "BadIPHeader", code |-> code.val])
      [] t = 13 ->
           V4Message(bytes, V4TimestampFields(bytes),
                     V4TimestampType("Timestamp", bytes))
      [] t = 14 ->
           V4Message(bytes, V4TimestampFields(bytes),
                     V4TimestampType("TimestampReply", bytes))
      [] OTHER -> Err("UnknownType")

\* Ok(ICMPv6Message { icmpv6_type, checksum: be_u16(msgbytes, 2),
\* body: msgbytes[8..].to_vec() })
V6Message(bytes, fields, icmpv6_type) ==
    IF \/ \E f \in fields : f.tag = "Panic"
       \/ be_u16(bytes, 2).tag = "Panic"
       \/ From8(bytes).tag = "Panic"
    THEN Panic
    ELSE Ok([ icmpv6_type |-> icmpv6_type,
              checksum    |-> be_u16(bytes, 2).val,
              body        |-> From8(bytes).val ])

\* The arms of ICMPv6Message::try_from that start with
\* `let code = msgbytes[1].try_into()?`.
V6WithCode(bytes, parsed, fields, icmpv6_type) ==
    IF parsed.tag # "Ok" THEN parsed
    ELSE V6Message(bytes, fields, icmpv6_type)

\* impl TryFrom<&[u8]> for ICMPv6Message
ICMPv6Message_try_from(bytes) ==
    IF ByteAt(bytes, 0).tag = "Panic" THEN Panic
    ELSE
    LET t == bytes[1] IN
    CASE t = 1 ->
           LET code ==
             CodeOf(bytes, DestinationUnreachableV6Code_try_from(bytes[2]))
           IN
           V6WithCode(bytes, code, {},
                      [kind |-> "DestinationUnreachable", code |-> code.val])
      [] t = 2 ->
           V6Message(bytes, {be_u32(bytes, 4)},
                     [kind |-> "PacketTooBig", mtu |-> be_u32(bytes, 4).val])
      [] t = 3 ->
           LET code == CodeOf(bytes, TimeExceededCode_try_from(bytes[2])) IN
           V6WithCode(bytes, code, {},
                      [kind |-> "TimeExceeded", code |-> code.val])
      [] t = 4 ->
           LET code == CodeOf(bytes, ParamProblemCode_try_from(bytes[2])) IN
           V6WithCode(bytes, code, {be_u32(bytes, 4)},
                      [ kind |-> "ParameterProblem",
                        code |-> code.val,
                        ptr  |-> be_u32(bytes, 4).val ])
      [] t = 128 ->
           V6Message(bytes, {be_u16(bytes, 4), be_u16(bytes, 6)},
                     [ kind         |-> "EchoRequest",
                       identifier   |-> be_u16(bytes, 4).val,
                       sequence_num |-> be_u16(bytes, 6).val ])
      [] t = 129 ->
           V6Message(bytes, {be_u16(bytes, 4), be_u16(bytes, 6)},
                     [ kind         |-> "EchoReply",
                       identifier   |-> be_u16(bytes, 4).val,
                       sequence_num |-> be_u16(bytes, 6).val ])
      [] OTHER -> Err("UnknownType")

----------------------------------------------------------------------------
(* SpecDecode: try_from applied to one buffer.                             *)

\* The longest buffer SpecDecode decodes.
MaxBufLen == 21

\* The type and code bytes SpecDecode draws from.
DecodeTypeBytes == (0 .. 15) \cup {127, 128, 129, 130, 250, 255}
DecodeCodeBytes == (0 .. 17) \cup {99, 255}

\* The byte at offset j >= 2 of the buffers: a value that tells offsets apart.
FillByte(j) == (j * 37 + 11) % 128

\* The buffer of n bytes with type byte t and code byte c.
BufferOf(t, c, n) ==
    [j \in 1 .. n |-> IF j = 1 THEN t ELSE IF j = 2 THEN c ELSE FillByte(j - 1)]

DecodeBuffers ==
    {BufferOf(t, c, n) :
       t \in DecodeTypeBytes, c \in DecodeCodeBytes, n \in 0 .. MaxBufLen}

FoldIdle ==
    /\ hinfos = <<>>
    /\ agg_panicked = FALSE
    /\ screen = NotYet
    /\ overflow_checks = FALSE
    /\ log = <<>>

DecodeInit ==
    /\ msgbytes \in DecodeBuffers
    /\ family \in {"v4", "v6"}
    /\ decoded = NotYet
    /\ echo_args = NotYet
    /\ SumIdle
    /\ FoldIdle
    /\ SysIdle

\* let maybe_message: Result<ICMPv4Message, _> = msgbytes.try_into()
DecodeV4 ==
    /\ family = "v4"
    /\ decoded = NotYet
    /\ decoded' = ICMPv4Message_try_from(msgbytes)
    /\ UNCHANGED <<msgbytes, family, echo_args, sumVars, foldVars, sysVars>>

\* let maybe_message: Result<ICMPv6Message, _> = msgbytes.try_into()
DecodeV6 ==
    /\ family = "v6"
    /\ decoded = NotYet
    /\ decoded' = ICMPv6Message_try_from(msgbytes)
    /\ UNCHANGED <<msgbytes, family, echo_args, sumVars, foldVars, sysVars>>

DecodeNext == DecodeV4 \/ DecodeV6

SpecDecode == DecodeInit /\ [][DecodeNext]_vars

----------------------------------------------------------------------------
(* The echo request encoder (src/src/icmp.rs) and the ping payload         *)
(* (src/src/lib.rs).                                                       *)

\* u16::to_be_bytes
u16_to_be_bytes(x) == <<x \div 256, x % 256>>

\* u64::to_be_bytes, for the values below 2^31 the model's clock takes.
u64_to_be_bytes(x) ==
    [j \in 1 .. 8 |-> IF j <= 4 THEN 0 ELSE (x \div (256 ^ (8 - j))) % 256]

\* u64::from_be_bytes
RECURSIVE u64_from_be_bytes(_)
u64_from_be_bytes(b) ==
    IF b = <<>> THEN 0
    ELSE u64_from_be_bytes(SubSeq(b, 1, Len(b) - 1)) * 256 + b[Len(b)]

\* `for b in header { total += *b as u32 }`
RECURSIVE SumBytes(_)
SumBytes(b) == IF b = <<>> THEN 0 ELSE Head(b) + SumBytes(Tail(b))

\* populate_checksum on the 8-byte header of construct_echo_request_v4: the
\* byte sum is at most 8 * 255, below 0xffff, so the carry loop is not
\* entered; `!total as u16` is then 0xffff - total.
populate_checksum(header) ==
    LET total == SumBytes(header)
        final_checksum == u16_to_be_bytes(65535 - total)
    IN [header EXCEPT ![3] = final_checksum[1], ![4] = final_checksum[2]]

\* construct_echo_request_v4 with the sequence number before the identifier.
construct_echo_request_v4_SwappedFields(identifier, sequence_num, extdata) ==
    LET be_id == u16_to_be_bytes(identifier)
        be_seq == u16_to_be_bytes(sequence_num)
        header == <<8, 0, 0, 0, be_seq[1], be_seq[2], be_id[1], be_id[2]>>
    IN populate_checksum(header) \o extdata

construct_echo_request_v4(identifier, sequence_num, extdata) ==
    LET be_id == u16_to_be_bytes(identifier)
        be_seq == u16_to_be_bytes(sequence_num)
        header == <<8, 0, 0, 0, be_id[1], be_id[2], be_seq[1], be_seq[2]>>
    IN populate_checksum(header) \o extdata

\* construct_echo_request_v6: the same header with type 128, and the call of
\* populate_checksum commented out.
construct_echo_request_v6(identifier, sequence_num, extdata) ==
    LET be_id == u16_to_be_bytes(identifier)
        be_seq == u16_to_be_bytes(sequence_num)
        header == <<128, 0, 0, 0, be_id[1], be_id[2], be_seq[1], be_seq[2]>>
    IN header \o extdata

\* (0x10_u8..=0x37_u8).collect()
Filler == [j \in 1 .. 40 |-> 15 + j]

\* The buffer send_ping hands to send_to when the clock reads t microseconds.
PingPacket(t) ==
    LET secs == t \div 1000000
        micros == t % 1000000
    IN construct_echo_request_v4(48879, 1, u64_to_be_bytes(secs))
         \o u64_to_be_bytes(micros) \o Filler

\* The echo reply of a host to `request`: type 0 and the payload unchanged.
\* Identifier, sequence number and checksum are the peer's and the kernel's
\* to set; receive_ping reads none of them.
EchoReplyTo(request) == [request EXCEPT ![1] = 0]

\* A receive_ping that would read the seconds only and drop the sub-second
\* microseconds: what C23 rules out.
receive_ping_SecondsOnly(d, cur, checks) ==
    LET used == SubSeq(d.bytes, 1, IF Len(d.bytes) < 100 THEN Len(d.bytes) ELSE 100)
        maybe_message == ICMPv4Message_try_from(used)
    IN IF maybe_message.tag = "Panic" THEN Panic
       ELSE IF maybe_message.tag = "Err" THEN Err("NotFound")
       ELSE
       LET data == maybe_message.val.icmpv4_data IN
       IF Len(data) < 16 THEN Panic
       ELSE
       LET ts_seconds == u64_from_be_bytes(SubSeq(data, 1, 8))
           ts_micros == ts_seconds * 1000000
           diff_micros == cur - ts_micros
       IN IF diff_micros < 0 /\ checks THEN Panic
          ELSE Ok([addr |-> d.src, latency |-> diff_micros % U64Mod])

\* receive_ping on the datagram d read while the clock reads cur: the
\* address and the latency, an Err (logged by the caller), or a panic.
receive_ping(d, cur, checks) ==
    LET used == SubSeq(d.bytes, 1, IF Len(d.bytes) < 100 THEN Len(d.bytes) ELSE 100)
        maybe_message == ICMPv4Message_try_from(used)
    IN IF maybe_message.tag = "Panic" THEN Panic
       ELSE IF maybe_message.tag = "Err" THEN Err("NotFound")
       ELSE
       LET data == maybe_message.val.icmpv4_data IN
       IF Len(data) < 16 THEN Panic
       ELSE
       LET ts_seconds == u64_from_be_bytes(SubSeq(data, 1, 8))
           ts_sub_micros == u64_from_be_bytes(SubSeq(data, 9, 16))
           ts_micros == ts_seconds * 1000000 + ts_sub_micros
           diff_micros == cur - ts_micros
       IN IF diff_micros < 0 /\ checks THEN Panic
          ELSE Ok([addr |-> d.src, latency |-> diff_micros % U64Mod])

----------------------------------------------------------------------------
(* SpecEncode: the echo request encoders, and the decoders on their        *)
(* result.                                                                 *)

\* The payloads have at most MaxPayloadLen bytes.
MaxPayloadLen == 3

\* The u16 arguments SpecEncode draws from.
EncodeIdentifiers == {0, 1, 255, 256, 48879, 65535}
EncodeSequenceNums == {0, 1, 258, 65535}

\* The payload of n bytes that starts from `seed`.
PayloadOf(seed, n) == [j \in 1 .. n |-> (seed + 53 * j) % 256]

EncodePayloads == {PayloadOf(seed, n) : seed \in {0, 203}, n \in 0 .. MaxPayloadLen}

EncodeInit ==
    /\ echo_args \in [identifier : EncodeIdentifiers,
                    sequence_num : EncodeSequenceNums,
                    extdata : EncodePayloads]
    /\ family \in {"v4", "v6"}
    /\ msgbytes = <<>>
    /\ decoded = NotYet
    /\ SumIdle
    /\ FoldIdle
    /\ SysIdle

\* construct_echo_request_v4(identifier, sequence_num, &extdata)
ConstructV4 ==
    /\ family = "v4"
    /\ msgbytes = <<>>
    /\ msgbytes' = construct_echo_request_v4(echo_args.identifier,
                      echo_args.sequence_num, echo_args.extdata)
    /\ UNCHANGED <<family, decoded, echo_args, sumVars, foldVars, sysVars>>

\* construct_echo_request_v6(identifier, sequence_num, &extdata)
ConstructV6 ==
    /\ family = "v6"
    /\ msgbytes = <<>>
    /\ msgbytes' = construct_echo_request_v6(echo_args.identifier,
                      echo_args.sequence_num, echo_args.extdata)
    /\ UNCHANGED <<family, decoded, echo_args, sumVars, foldVars, sysVars>>

\* The encoded message handed to ICMPv4Message::try_from.
DecodeEncodedV4 == msgbytes # <<>> /\ DecodeV4

\* The encoded message handed to ICMPv6Message::try_from.
DecodeEncodedV6 == msgbytes # <<>> /\ DecodeV6

EncodeNext == ConstructV4 \/ ConstructV6 \/ DecodeEncodedV4 \/ DecodeEncodedV6

SpecEncode == EncodeInit /\ [][EncodeNext]_vars

----------------------------------------------------------------------------
(* SpecChecksum: populate_checksum, its loops step by step, on header      *)
(* slices drawn from a bounded set.  `total` is a u32, here a word of      *)
(* U32Bits bits; 0xffff, the largest value of its lower half, is           *)
(* CarryLimit, and `total >> 16` is the upper half, total \div HalfMod.    *)

HalfMod == 2 ^ (U32Bits \div 2)
CarryLimit == HalfMod - 1

\* The longest header slice.
MaxSliceLen == 8

\* The bytes of the slices: small enough for the byte sum of a slice to fit
\* the word, large enough for it to pass CarryLimit.
ChecksumBytes == {0, 1, 3, 7}

\* The header slices populate_checksum is called with: at least 4 bytes.
ChecksumHeaders ==
    {[j \in 1 .. n |-> IF j <= k THEN a ELSE b] :
       n \in 4 .. MaxSliceLen, k \in 0 .. MaxSliceLen,
       a \in ChecksumBytes, b \in ChecksumBytes}

ChecksumInit ==
    /\ msgbytes \in ChecksumHeaders
    /\ overflow_checks \in BOOLEAN
    /\ cksum_total = 0
    /\ cksum_pc = "sum"
    /\ family = "v4"
    /\ decoded = NotYet
    /\ echo_args = NotYet
    /\ hinfos = <<>>
    /\ agg_panicked = FALSE
    /\ screen = NotYet
    /\ log = <<>>
    /\ SysIdle

\* `for b in &mut *header { total += *b as u32; }`
ChecksumSum ==
    /\ cksum_pc = "sum"
    /\ LET sum == SumBytes(msgbytes) IN
       IF sum > U32Max /\ overflow_checks
       THEN cksum_pc' = "panicked" /\ UNCHANGED cksum_total
       ELSE cksum_pc' = "fold" /\ cksum_total' = sum % U32Mod
    /\ UNCHANGED <<msgbytes, family, decoded, echo_args, foldVars, sysVars>>

\* `while total >= 0xffff { total += total >> 16 }`: one turn of the loop.
ChecksumFold ==
    /\ cksum_pc = "fold"
    /\ cksum_total >= CarryLimit
    /\ LET sum == cksum_total + (cksum_total \div HalfMod) IN
       IF sum > U32Max /\ overflow_checks
       THEN cksum_pc' = "panicked" /\ UNCHANGED cksum_total
       ELSE cksum_pc' = "fold" /\ cksum_total' = sum % U32Mod
    /\ UNCHANGED <<msgbytes, family, decoded, echo_args, foldVars, sysVars>>

\* The loop is left: `(!total as u16).to_be_bytes()` goes to header[2..4].
ChecksumWrite ==
    /\ cksum_pc = "fold"
    /\ cksum_total < CarryLimit
    /\ LET final_checksum == u16_to_be_bytes(CarryLimit - (cksum_total % HalfMod)) IN
       msgbytes' = [msgbytes EXCEPT ![3] = final_checksum[1],
                                    ![4] = final_checksum[2]]
    /\ cksum_pc' = "done"
    /\ UNCHANGED <<cksum_total, family, decoded, echo_args, foldVars, sysVars>>

ChecksumNext == ChecksumSum \/ ChecksumFold \/ ChecksumWrite

\* populate_checksum is straight-line code and loops: it goes on running.
SpecChecksum ==
    ChecksumInit /\ [][ChecksumNext]_vars /\ WF_vars(ChecksumNext)

----------------------------------------------------------------------------
(* SpecDisplay: update_display applied to a table of one host whose        *)
(* counters are drawn from the u32 range.                                  *)

\* The counter values SpecDisplay draws from.
DisplayCounts ==
    {0, 1, 2, 3, U32Max \div 100, (U32Max \div 100) + 1, U32Max \div 2,
     U32Max - 1, U32Max}

\* The record of a host after `total` Sent updates and `suc` Received
\* updates of latency 0.
DisplayedHost(suc, total) ==
    [NewHostInfo(1) EXCEPT
       !.pings_sent = total,
       !.successful = suc,
       !.latest_time = IF suc > 0 THEN Some(0) ELSE None,
       !.min_time = IF suc > 0 THEN Some(0) ELSE None,
       !.max_time = IF suc > 0 THEN Some(0) ELSE None]

DisplayInit ==
    /\ \E suc \in DisplayCounts, total \in DisplayCounts :
         hinfos = <<DisplayedHost(suc, total)>>
    /\ overflow_checks \in BOOLEAN
    /\ agg_panicked = FALSE
    /\ screen = NotYet
    /\ log = <<>>
    /\ SysIdle
    /\ DecIdle

\* update_display(&term, &hinfos, max_host_width, colour)
DrawTable ==
    /\ screen = NotYet
    /\ ~agg_panicked
    /\ LET d == update_display(hinfos, overflow_checks) IN
       /\ agg_panicked' = d.panicked
       /\ hinfos' = IF d.panicked THEN <<>> ELSE hinfos
       /\ screen' = IF d.panicked THEN NotYet ELSE Drawn(d.rows)
    /\ UNCHANGED <<overflow_checks, log, sysVars, decVars>>

DisplayNext == DrawTable

SpecDisplay == DisplayInit /\ [][DisplayNext]_vars

----------------------------------------------------------------------------
(* Spec: the running program (src/src/main.rs).                            *)

\* The socket does at most MaxDatagrams things besides delivering replies:
\* it takes the pings the sender sends, delivers datagrams that answer no
\* ping, and fails a receive.
MaxDatagrams == 2

\* The clock advances at most to MaxClock microseconds.
MaxClock == 1

\* The error kinds send_to fails with.
SendErrors == {"PermissionDenied"}

\* The error kinds peek_sender and read fail with.
ReceiveErrors == {"Interrupted"}

\* The command lines: each host string is the IPv4 address it resolves to,
\* or 0 when HostInfo::new fails on it.
ArgLists == {<<>>, <<0>>, <<1>>, <<1, 0>>, <<1, 2>>, <<1, 1>>}

\* Datagrams that answer no ping of this program.
StrayDatagrams ==
    { [src |-> 1, bytes |-> <<>>],
      [src |-> 1, bytes |-> <<0, 0, 0, 0, 0, 0, 0, 0>>],
      [src |-> 1, bytes |-> <<250, 0, 0, 0, 0, 0, 0, 0>>],
      [src |-> 1, bytes |-> <<3, 99, 0, 0, 0, 0, 0, 0>>],
      [src |-> 1, bytes |-> <<3, 1, 0, 0, 0, 0, 0, 0>> \o [j \in 1 .. 28 |-> 0]],
      [src |-> 9, bytes |-> EchoReplyTo(PingPacket(0))],
      [src |-> 1, bytes |-> EchoReplyTo(PingPacket(MaxClock + 1))] }

Init ==
    /\ args \in ArgLists
    /\ overflow_checks \in BOOLEAN
    /\ hinfos = <<>>
    /\ agg_panicked = FALSE
    /\ screen = NotYet
    /\ log = <<>>
    /\ send_hosts = <<>>
    /\ recv_hosts = <<>>
    /\ chan = <<>>
    /\ wire = {}
    /\ main_pc = "parse"
    /\ send_pc = "idle"
    /\ send_i = 0
    /\ send_res = "none"
    /\ recv_pc = "idle"
    /\ recv_res = "none"
    /\ socket = "none"
    /\ now = 0
    /\ nsent = 0
    /\ nstray = 0
    /\ DecIdle

\* main: no hosts given, or the loop over args.hosts: every host is pushed,
\* and the first one that fails to parse ends the process with exit(1).
ParseHosts ==
    /\ main_pc = "parse"
    /\ IF args = <<>> \/ \E k \in DOMAIN args : args[k] = 0
       THEN /\ main_pc' = "exited"
            /\ UNCHANGED hinfos
       ELSE /\ main_pc' = "mksocket"
            /\ hinfos' = [k \in DOMAIN args |-> NewHostInfo(args[k])]
    /\ UNCHANGED <<agg_panicked, screen, overflow_checks, log, args, send_hosts,
                   recv_hosts, chan, wire, send_pc, send_i, send_res, recv_pc,
                   recv_res, socket, now, nsent, nstray, decVars>>

\* A main that would go on when mksocket fails, the threads spawned without
\* a socket: what C18 rules out.
MkSocket_IgnoresFailure ==
    /\ main_pc = "mksocket"
    /\ \E ok \in BOOLEAN :
         /\ main_pc' = "display"
         /\ socket' = IF ok THEN "open" ELSE socket
         /\ send_hosts' = hinfos
         /\ recv_hosts' = hinfos
         /\ send_pc' = "send"
         /\ recv_pc' = "recv"
    /\ UNCHANGED <<foldVars, args, chan, wire, send_i, send_res, recv_res, now,
                   nsent, nstray, decVars>>

\* main: the two clones of hinfos, mksocket().unwrap(), try_clone().unwrap()
\* and the two thread::spawn calls; a socket that cannot be made panics.
MkSocket ==
    /\ main_pc = "mksocket"
    /\ \E ok \in BOOLEAN :
         IF ok
         THEN /\ main_pc' = "display"
              /\ socket' = "open"
              /\ send_hosts' = hinfos
              /\ recv_hosts' = hinfos
              /\ send_pc' = "send"
              /\ recv_pc' = "recv"
         ELSE /\ main_pc' = "panicked"
              /\ UNCHANGED <<socket, send_hosts, recv_hosts, send_pc, recv_pc>>
    /\ UNCHANGED <<foldVars, args, chan, wire, send_i, send_res, recv_res, now,
                   nsent, nstray, decVars>>

\* The threads run while the process does.
Running == main_pc = "display"

\* SystemTime::now(): the clock reads t, not less than at the reading before.
ClockReads(t) ==
    /\ t >= now
    /\ now' = t

\* A sender that would count its ping in the table itself: what C26 rules
\* out.
SendPing_WritesTable ==
    /\ Running
    /\ send_pc = "send"
    /\ nsent + nstray < MaxDatagrams
    /\ \E t \in now .. MaxClock, res \in {"ok"} \cup SendErrors :
         /\ ClockReads(t)
         /\ send_res' = res
         /\ wire' = IF res = "ok"
                    THEN wire \cup {[ping |-> nsent + 1,
                                     src |-> send_hosts[send_i + 1].host,
                                     bytes |-> EchoReplyTo(PingPacket(t))]}
                    ELSE wire
    /\ nsent' = nsent + 1
    /\ send_pc' = "emit"
    /\ hinfos' = [hinfos EXCEPT ![send_i + 1] = UpdateSent(@)]
    /\ UNCHANGED <<agg_panicked, screen, overflow_checks, log, args, send_hosts,
                   recv_hosts, chan, main_pc,
                   send_i, recv_pc, recv_res, socket, nstray, decVars>>

\* Sender thread: send_ping(&h, &socket) for the host at send_i, the clock
\* reading t.  A send that succeeds puts a request on the wire, which its
\* host may answer.
SendPing ==
    /\ Running
    /\ send_pc = "send"
    /\ nsent + nstray < MaxDatagrams
    /\ \E t \in now .. MaxClock, res \in {"ok"} \cup SendErrors :
         /\ ClockReads(t)
         /\ send_res' = res
         /\ wire' = IF res = "ok"
                    THEN wire \cup {[ping |-> nsent + 1,
                                     src |-> send_hosts[send_i + 1].host,
                                     bytes |-> EchoReplyTo(PingPacket(t))]}
                    ELSE wire
    /\ nsent' = nsent + 1
    /\ send_pc' = "emit"
    /\ UNCHANGED <<foldVars, args, send_hosts, recv_hosts, chan, main_pc,
                   send_i, recv_pc, recv_res, socket, nstray, decVars>>

\* A sender that would give up its round at the first failed send: what C21
\* rules out.
SenderEmit_ErrorEndsRound ==
    /\ Running
    /\ send_pc = "emit"
    /\ chan' = Append(chan,
                 [from |-> "sender",
                  ev |-> IF send_res = "ok" THEN Sent(send_i)
                         ELSE Error(send_i, send_res)])
    /\ send_res' = "none"
    /\ IF send_i + 1 < Len(send_hosts) /\ send_res = "ok"
       THEN send_i' = send_i + 1 /\ send_pc' = "send"
       ELSE send_i' = 0 /\ send_pc' = "sleep"
    /\ UNCHANGED <<foldVars, args, send_hosts, recv_hosts, wire, main_pc,
                   recv_pc, recv_res, socket, now, nsent, nstray, decVars>>

\* Sender thread: send_tx.send(Error(i, e.kind())) or send_tx.send(Sent(i)),
\* then the next host, or the sleep after the last one.
SenderEmit ==
    /\ Running
    /\ send_pc = "emit"
    /\ chan' = Append(chan,
                 [from |-> "sender",
                  ev |-> IF send_res = "ok" THEN Sent(send_i)
                         ELSE Error(send_i, send_res)])
    /\ send_res' = "none"
    /\ IF send_i + 1 < Len(send_hosts)
       THEN send_i' = send_i + 1 /\ send_pc' = "send"
       ELSE send_i' = 0 /\ send_pc' = "sleep"
    /\ UNCHANGED <<foldVars, args, send_hosts, recv_hosts, wire, main_pc,
                   recv_pc, recv_res, socket, now, nsent, nstray, decVars>>

\* Sender thread: thread::sleep returns and the next round starts.
SenderWake ==
    /\ Running
    /\ send_pc = "sleep"
    /\ send_pc' = "send"
    /\ UNCHANGED <<foldVars, args, send_hosts, recv_hosts, chan, wire, main_pc,
                   send_i, send_res, recv_pc, recv_res, socket, now, nsent,
                   nstray, decVars>>

\* The indexes (0-based) of the receiver's hosts whose address is addr.
HostsAt(addr) ==
    {i \in HostIndexes(recv_hosts) : recv_hosts[i + 1].host = addr}

\* receive_ping on the datagram d gets as far as SystemTime::now(): d
\* decodes and its data holds the 16 bytes of a timestamp.
ReadsClock(d) ==
    LET used == SubSeq(d.bytes, 1, IF Len(d.bytes) < 100 THEN Len(d.bytes) ELSE 100)
        maybe_message == ICMPv4Message_try_from(used)
    IN maybe_message.tag = "Ok" /\ Len(maybe_message.val.icmpv4_data) >= 16

\* A receiver that would report the last host of the address instead of the
\* first: what C29 rules out.
ReceiveDatagram_LastMatch(d, t) ==
    LET r == receive_ping(d, t, overflow_checks) IN
    /\ IF ReadsClock(d) THEN ClockReads(t) ELSE now' = now
    /\ recv_pc' = IF r.tag = "Panic" THEN "panicked" ELSE "recv"
    /\ recv_res' = "none"
    /\ chan' = IF r.tag = "Ok" /\ HostsAt(r.val.addr) # {}
               THEN Append(chan,
                      [from |-> "receiver",
                       ev |-> Received(
                         CHOOSE i \in HostsAt(r.val.addr) :
                           \A j \in HostsAt(r.val.addr) : i >= j,
                         r.val.latency)])
               ELSE chan

\* A receiver that would find the host by the identifier of the reply
\* instead of its source address: what C22 rules out.
ReceiveDatagram_ByIdentifier(d, t) ==
    LET r == receive_ping(d, t, overflow_checks) IN
    /\ IF ReadsClock(d) THEN ClockReads(t) ELSE now' = now
    /\ recv_pc' = IF r.tag = "Panic" THEN "panicked" ELSE "recv"
    /\ recv_res' = "none"
    /\ chan' = IF r.tag = "Ok"
               THEN Append(chan,
                      [from |-> "receiver",
                       ev |-> Received(
                         (d.bytes[5] * 256 + d.bytes[6]) % Len(recv_hosts),
                         r.val.latency)])
               ELSE chan

\* Receiver thread: one iteration of its loop on the datagram d, the clock
\* reading t if receive_ping reads it.
ReceiveDatagram(d, t) ==
    LET r == receive_ping(d, t, overflow_checks) IN
    /\ IF ReadsClock(d) THEN ClockReads(t) ELSE now' = now
    /\ recv_pc' = IF r.tag = "Panic" THEN "panicked" ELSE "recv"
    /\ recv_res' = "none"
    /\ chan' = IF r.tag = "Ok" /\ HostsAt(r.val.addr) # {}
               THEN Append(chan,
                      [from |-> "receiver",
                       ev |-> Received(
                         CHOOSE i \in HostsAt(r.val.addr) :
                           \A j \in HostsAt(r.val.addr) : i <= j,
                         r.val.latency)])
               ELSE chan

\* Receiver thread: the reply to one of the pings arrives and is read.
ReceiveReply ==
    /\ Running
    /\ recv_pc = "recv"
    /\ \E d \in wire, t \in now .. MaxClock :
         /\ ReceiveDatagram(d, t)
         /\ wire' = wire \ {d}
    /\ UNCHANGED <<foldVars, args, send_hosts, recv_hosts, main_pc, send_pc,
                   send_i, send_res, socket, nsent, nstray, decVars>>

\* Receiver thread: a datagram that answers no ping arrives and is read.
ReceiveStray ==
    /\ Running
    /\ recv_pc = "recv"
    /\ nsent + nstray < MaxDatagrams
    /\ \E d \in StrayDatagrams, t \in now .. MaxClock : ReceiveDatagram(d, t)
    /\ nstray' = nstray + 1
    /\ UNCHANGED <<foldVars, args, send_hosts, recv_hosts, wire, main_pc,
                   send_pc, send_i, send_res, socket, nsent, decVars>>

\* Receiver thread: one iteration of its loop in which peek_sender or read
\* fails: receive_ping returns the error, and the `Err(e)` arm prints it
\* (its recv_tx.send is commented out).
ReceiveFails ==
    /\ Running
    /\ recv_pc = "recv"
    /\ nsent + nstray < MaxDatagrams
    /\ \E e \in ReceiveErrors : recv_res' = e
    /\ nstray' = nstray + 1
    /\ UNCHANGED <<foldVars, args, send_hosts, recv_hosts, chan, wire, main_pc,
                   send_pc, send_i, send_res, recv_pc, socket, now, nsent,
                   decVars>>

\* An aggregator that would take the newest update of the channel instead of
\* the oldest: what C25 rules out.
Aggregate_TakesNewest ==
    /\ Running
    /\ chan # <<>>
    /\ LET r == display_loop_body(chan[Len(chan)].ev, hinfos, overflow_checks) IN
       \E drawn \in BOOLEAN :
         IF r.panicked \/ ~drawn
         THEN /\ main_pc' = IF r.panicked THEN "panicked" ELSE "exited"
              /\ agg_panicked' = r.panicked
              /\ hinfos' = <<>>
              /\ screen' = NotYet
              /\ chan' = <<>>
              /\ wire' = {}
              /\ send_hosts' = <<>>
              /\ recv_hosts' = <<>>
              /\ send_pc' = "dead"
              /\ recv_pc' = "dead"
              /\ send_i' = 0
              /\ send_res' = "none"
              /\ recv_res' = "none"
              /\ socket' = "closed"
         ELSE /\ main_pc' = "display"
              /\ agg_panicked' = FALSE
              /\ hinfos' = r.hinfos
              /\ screen' = r.screen
              /\ chan' = SubSeq(chan, 1, Len(chan) - 1)
              /\ UNCHANGED <<wire, send_hosts, recv_hosts, send_pc, recv_pc,
                             send_i, send_res, recv_res, socket>>
    /\ UNCHANGED <<overflow_checks, log, args, now, nsent, nstray, decVars>>

\* Main thread: one iteration of display_loop: the next update of the
\* channel is applied and the table is drawn.  An overflow panics the main
\* thread and a terminal error returns from display_loop; either ends the
\* process: its threads, its channel, its socket and its table are gone.
Aggregate ==
    /\ Running
    /\ chan # <<>>
    /\ LET r == display_loop_body(Head(chan).ev, hinfos, overflow_checks) IN
       \E drawn \in BOOLEAN :
         IF r.panicked \/ ~drawn
         THEN /\ main_pc' = IF r.panicked THEN "panicked" ELSE "exited"
              /\ agg_panicked' = r.panicked
              /\ hinfos' = <<>>
              /\ screen' = NotYet
              /\ chan' = <<>>
              /\ wire' = {}
              /\ send_hosts' = <<>>
              /\ recv_hosts' = <<>>
              /\ send_pc' = "dead"
              /\ recv_pc' = "dead"
              /\ send_i' = 0
              /\ send_res' = "none"
              /\ recv_res' = "none"
              /\ socket' = "closed"
         ELSE /\ main_pc' = "display"
              /\ agg_panicked' = FALSE
              /\ hinfos' = r.hinfos
              /\ screen' = r.screen
              /\ chan' = Tail(chan)
              /\ UNCHANGED <<wire, send_hosts, recv_hosts, send_pc, recv_pc,
                             send_i, send_res, recv_res, socket>>
    /\ UNCHANGED <<overflow_checks, log, args, now, nsent, nstray, decVars>>

Next ==
    \/ ParseHosts
    \/ MkSocket
    \/ SendPing
    \/ SenderEmit
    \/ SenderWake
    \/ ReceiveReply
    \/ ReceiveStray
    \/ ReceiveFails
    \/ Aggregate

Spec == Init /\ [][Next]_vars

----------------------------------------------------------------------------
(* SpecReceive: one iteration of the receiver thread's loop on a datagram  *)
(* drawn from a bounded set, the clock reading drawn from a bounded set,   *)
(* and the aggregator applying what the iteration emitted.                 *)

\* The clock readings of receive_ping, in microseconds since the epoch.
ReceiveClocks == {0, 1, 3, 1000000, 1000003, 2000001}

\* The timestamps a datagram carries: <<seconds, sub-second microseconds>>;
\* a peer may send any two numbers.
ReceiveStamps == {<<0, 0>>, <<0, 1>>, <<1, 0>>, <<1, 2>>, <<0, 1000001>>, <<2, 0>>}

\* <<type, code>> of the messages read: echo reply, destination unreachable,
\* echo request, time exceeded.
ReceiveKinds == {<<0, 0>>, <<3, 1>>, <<8, 0>>, <<11, 0>>}

\* <<identifier, sequence number>> of the messages read: the sender's own,
\* and what a kernel or a peer may have put there instead.
ReceiveIdSeqs == {<<48879, 1>>, <<0, 0>>, <<1, 2>>}

\* The datagram from src with the given header and timestamp, followed by
\* the filler of send_ping.
DatagramOf(src, kind, idseq, stamp) ==
    [src |-> src,
     bytes |-> <<kind[1], kind[2], 0, 0>> \o u16_to_be_bytes(idseq[1])
                 \o u16_to_be_bytes(idseq[2]) \o u64_to_be_bytes(stamp[1])
                 \o u64_to_be_bytes(stamp[2]) \o Filler]

\* The datagrams read: from the addresses 1 and 2 and from the address 9 no
\* host has; the replies to what send_ping sent at each clock reading; and
\* the ones of StrayDatagrams.
ReceiveDatagrams ==
    {DatagramOf(src, kind, idseq, stamp) :
       src \in {1, 2, 9}, kind \in ReceiveKinds, idseq \in ReceiveIdSeqs,
       stamp \in ReceiveStamps}
    \cup {[src |-> 1, bytes |-> EchoReplyTo(PingPacket(t))] : t \in ReceiveClocks}
    \cup StrayDatagrams

\* The argument lists of the hosts monitored: one host, two hosts, two
\* hosts of the same address.
ReceiveArgLists == {<<1>>, <<1, 2>>, <<2, 1>>, <<1, 1>>}

\* The program after startup, the sender asleep and one datagram to read.
ReceiveInit ==
    /\ args \in ReceiveArgLists
    /\ overflow_checks \in BOOLEAN
    /\ hinfos = [k \in DOMAIN args |-> NewHostInfo(args[k])]
    /\ agg_panicked = FALSE
    /\ screen = NotYet
    /\ log = <<>>
    /\ send_hosts = hinfos
    /\ recv_hosts = hinfos
    /\ chan = <<>>
    /\ \E d \in ReceiveDatagrams : wire = {d}
    /\ main_pc = "display"
    /\ send_pc = "sleep"
    /\ send_i = 0
    /\ send_res = "none"
    /\ recv_pc = "recv"
    /\ recv_res = "none"
    /\ socket = "open"
    /\ now = 0
    /\ nsent = 0
    /\ nstray = 0
    /\ DecIdle

\* Receiver thread: one iteration of its loop on the datagram waiting.
ReceiveOne ==
    /\ Running
    /\ recv_pc = "recv"
    /\ \E d \in wire, t \in ReceiveClocks :
         /\ ReceiveDatagram(d, t)
         /\ wire' = wire \ {d}
    /\ UNCHANGED <<foldVars, args, send_hosts, recv_hosts, main_pc, send_pc,
                   send_i, send_res, socket, nsent, nstray, decVars>>

ReceiveNext == ReceiveOne \/ Aggregate

SpecReceive == ReceiveInit /\ [][ReceiveNext]_vars

----------------------------------------------------------------------------
(* Properties of the fold (SpecFold).                                      *)

FreshFoldTable == [k \in 1 .. Len(FoldHosts) |-> NewHostInfo(FoldHosts[k])]

\* The updates of one producer, in the order it sent them.
RECURSIVE EventsFrom(_, _)
EventsFrom(producer, l) ==
    IF l = <<>> THEN <<>>
    ELSE IF Head(l).from = producer
         THEN <<Head(l).ev>> \o EventsFrom(producer, Tail(l))
         ELSE EventsFrom(producer, Tail(l))

\* update_host_info applied to the updates evs in order, from state st;
\* nothing is applied after a panic.
RECURSIVE ApplyAll(_, _, _)
ApplyAll(evs, st, checks) ==
    IF st.panicked \/ evs = <<>> THEN st
    ELSE ApplyAll(Tail(evs), update_host_info(Head(evs), st.hinfos, checks), checks)

\* The same updates applied in another interleaving of the two producers:
\* all of the sender's, then all of the receiver's.
SenderFirst ==
    ApplyAll(EventsFrom("sender", log) \o EventsFrom("receiver", log),
             [panicked |-> FALSE, hinfos |-> FreshFoldTable], overflow_checks)

WithoutLastError(hs) == [k \in DOMAIN hs |-> [hs[k] EXCEPT !.last_error = None]]

\* C2 as stated: applying the same updates in any interleaving that keeps
\* each producer's order yields the same HostInfo values in every field.
C2_AnyInterleavingSameTable ==
    /\ agg_panicked = SenderFirst.panicked
    /\ hinfos = SenderFirst.hinfos

\* C2 amended: applying the same updates in any interleaving that keeps each
\* producer's order yields the same HostInfo values in every field but
\* last_error.
C2_AnyInterleavingSameButLastError ==
    /\ agg_panicked = SenderFirst.panicked
    /\ WithoutLastError(hinfos) = WithoutLastError(SenderFirst.hinfos)

\* A Received was applied before an Error of the same host, and the table
\* differs from the one the sender-first interleaving gives.
C2_Witness ==
    /\ ~agg_panicked
    /\ hinfos # SenderFirst.hinfos
    /\ \E p, q \in DOMAIN log :
         /\ p < q
         /\ log[p].from = "receiver"
         /\ log[q].from = "sender"
         /\ log[p].ev.i = log[q].ev.i

\* The latencies of the Received(i, _) updates applied so far, in order.
RECURSIVE LatenciesOf(_, _)
LatenciesOf(i, l) ==
    IF l = <<>> THEN <<>>
    ELSE IF Head(l).ev.type = "Received" /\ Head(l).ev.i = i
         THEN <<Head(l).ev.latency>> \o LatenciesOf(i, Tail(l))
         ELSE LatenciesOf(i, Tail(l))

RECURSIVE SumOf(_)
SumOf(s) == IF s = <<>> THEN 0 ELSE Head(s) + SumOf(Tail(s))

CountOf(type, i) ==
    Cardinality({p \in DOMAIN log : log[p].ev.type = type /\ log[p].ev.i = i})

SeqMin(s) == CHOOSE x \in {s[p] : p \in DOMAIN s} : \A p \in DOMAIN s : x <= s[p]
SeqMax(s) == CHOOSE x \in {s[p] : p \in DOMAIN s} : \A p \in DOMAIN s : x >= s[p]

\* C3: after any sequence of updates the record of host i holds the number
\* of Sent(i), the number of Received(i, _), the sum of their latencies, the
\* last, the smallest and the largest of them (unset when there is none).
C3_RecordMatchesEvents ==
    ~agg_panicked =>
      \A k \in DOMAIN hinfos :
        LET h == hinfos[k]
            ls == LatenciesOf(k - 1, log)
        IN /\ h.pings_sent = CountOf("Sent", k - 1)
           /\ h.successful = Len(ls)
           /\ h.sum_times = SumOf(ls)
           /\ h.latest_time = IF ls = <<>> THEN None ELSE Some(ls[Len(ls)])
           /\ h.min_time = IF ls = <<>> THEN None ELSE Some(SeqMin(ls))
           /\ h.max_time = IF ls = <<>> THEN None ELSE Some(SeqMax(ls))

\* C4: min, latest and max latency of a host are all set or all unset, and
\* when set, min <= latest <= max.
C4_MinLatestMax ==
    \A k \in DOMAIN hinfos :
      LET h == hinfos[k] IN
      /\ h.min_time.some = h.latest_time.some
      /\ h.max_time.some = h.latest_time.some
      /\ h.latest_time.some =>
           /\ h.min_time.val <= h.latest_time.val
           /\ h.latest_time.val <= h.max_time.val

\* A host whose latest latency lies strictly between its min and its max.
C4_Witness ==
    \E k \in DOMAIN hinfos :
      /\ hinfos[k].latest_time.some
      /\ hinfos[k].min_time.val < hinfos[k].latest_time.val
      /\ hinfos[k].latest_time.val < hinfos[k].max_time.val

\* The last of the Error(i, _) and Received(i, _) updates applied so far.
LastErrorOrReceived(i) ==
    LET ps == {p \in DOMAIN log :
                 log[p].ev.i = i /\ log[p].ev.type \in {"Error", "Received"}}
    IN IF ps = {} THEN None
       ELSE Some(log[CHOOSE p \in ps : \A q \in ps : q <= p].ev)

\* C5: last_error of host i is Some(k) exactly when the most recent of the
\* Error(i, _) and Received(i, _) updates applied was Error(i, k); a
\* Received clears it and a Sent leaves it alone.
C5_LastErrorIsLatestOutcome ==
    \A k \in DOMAIN hinfos :
      LET last == LastErrorOrReceived(k - 1) IN
      hinfos[k].last_error =
        IF last.some /\ last.val.type = "Error" THEN Some(last.val.errno) ELSE None

\* A host that had an error, then a reply, then a Sent: its error is cleared;
\* and a host whose error is still standing after a Sent.
C5_Witness ==
    /\ ~agg_panicked
    /\ \E p, q \in DOMAIN log :
         /\ p < q
         /\ log[p].ev.type = "Error"
         /\ log[q].ev.type = "Received"
         /\ log[p].ev.i = log[q].ev.i
         /\ hinfos[log[p].ev.i + 1].last_error = None
    /\ \E p, q \in DOMAIN log :
         /\ p < q
         /\ log[p].ev.type = "Error"
         /\ log[q].ev.type = "Sent"
         /\ log[p].ev.i = log[q].ev.i
         /\ hinfos[log[p].ev.i + 1].last_error = Some(log[p].ev.errno)

\* C6: across every step a host's latency sum and squared-latency sum never
\* decrease, and they change only when a Received of that host is applied.
C6_SumsOnlyGrowOnReceived ==
    [][\A k \in (DOMAIN hinfos) \cap (DOMAIN hinfos') :
         /\ hinfos'[k].sum_times >= hinfos[k].sum_times
         /\ hinfos'[k].sum_squared_times_ms >= hinfos[k].sum_squared_times_ms
         /\ (\/ hinfos'[k].sum_times # hinfos[k].sum_times
             \/ hinfos'[k].sum_squared_times_ms # hinfos[k].sum_squared_times_ms)
              => /\ Len(log') = Len(log) + 1
                 /\ log'[Len(log')].ev.type = "Received"
                 /\ log'[Len(log')].ev.i = k - 1]_vars

\* C7: update_host_info changes only the record of the update's host; there,
\* Sent(i) changes only pings_sent, by +1, Error(i, k) changes only
\* last_error, and Received(i, _) leaves pings_sent unchanged.
C7_UpdateFrame ==
    [][(Len(log') = Len(log) + 1 /\ ~agg_panicked') =>
         LET ev == log'[Len(log')].ev
             k == ev.i + 1
         IN /\ DOMAIN hinfos' = DOMAIN hinfos
            /\ \A j \in DOMAIN hinfos : j # k => hinfos'[j] = hinfos[j]
            /\ ev.type = "Sent" =>
                 hinfos'[k] = [hinfos[k] EXCEPT !.pings_sent = @ + 1]
            /\ ev.type = "Error" =>
                 /\ hinfos'[k] =
                      [hinfos[k] EXCEPT !.last_error = hinfos'[k].last_error]
                 /\ hinfos'[k].pings_sent = hinfos[k].pings_sent
                 /\ hinfos'[k].successful = hinfos[k].successful
            /\ ev.type = "Received" =>
                 hinfos'[k].pings_sent = hinfos[k].pings_sent]_vars

\* An Error was just applied to a host that has pings sent and replies
\* counted, while another host has a record that is no longer fresh.
C7_Witness ==
    /\ ~agg_panicked
    /\ log # <<>>
    /\ log[Len(log)].ev.type = "Error"
    /\ LET k == log[Len(log)].ev.i + 1 IN
         /\ hinfos[k].pings_sent > 0
         /\ hinfos[k].successful > 0
         /\ \E j \in DOMAIN hinfos : j # k /\ hinfos[j] # FreshFoldTable[j]

----------------------------------------------------------------------------
(* Properties of the decoder (SpecDecode).                                 *)

\* The message kind of a decoded Ok value.
KindOf(result) ==
    IF family = "v4" THEN result.val.icmpv4_type.kind
    ELSE result.val.icmpv6_type.kind

\* The shortest buffer that holds a whole message of the buffer's type: the
\* 8-byte header, and the three timestamps of ICMPv4 types 13 and 14.
MinLength ==
    IF family = "v4" /\ msgbytes # <<>> /\ msgbytes[1] \in {13, 14}
    THEN 20 ELSE 8

\* C8: decoding never aborts: every buffer, and in particular the empty one
\* and one shorter than its type needs, yields an error value.
C8_DecodeNeverAborts ==
    decoded # NotYet =>
      /\ decoded.tag # "Panic"
      /\ Len(msgbytes) < MinLength => decoded.tag = "Err"

\* The type numbers the variants of ICMPv4Type and ICMPv6Type stand for.
TypeKinds ==
    [ v4 |-> [t \in {0, 3, 4, 5, 8, 9, 10, 11, 12, 13, 14} |->
               CASE t = 0 -> "EchoReply"
                 [] t = 3 -> "DestinationUnreachable"
                 [] t = 4 -> "SourceQuench"
                 [] t = 5 -> "RedirectMessage"
                 [] t = 8 -> "EchoRequest"
                 [] t = 9 -> "RouterAdvertisement"
                 [] t = 10 -> "RouterSolicitation"
                 [] t = 11 -> "TimeExceeded"
                 [] t = 12 -> "BadIPHeader"
                 [] t = 13 -> "Timestamp"
                 [] t = 14 -> "TimestampReply"],
      v6 |-> [t \in {1, 2, 3, 4, 128, 129} |->
               CASE t = 1 -> "DestinationUnreachable"
                 [] t = 2 -> "PacketTooBig"
                 [] t = 3 -> "TimeExceeded"
                 [] t = 4 -> "ParameterProblem"
                 [] t = 128 -> "EchoRequest"
                 [] t = 129 -> "EchoReply"] ]

\* C9: for a buffer long enough for any type, a type byte that is not
\* supported yields UnknownType, and a message decoded from a supported type
\* byte is of the variant of that type number.
C9_TypeDispatch ==
    (decoded # NotYet /\ Len(msgbytes) >= 20) =>
      LET t == msgbytes[1] IN
      IF t \in DOMAIN TypeKinds[family]
      THEN decoded.tag = "Ok" => KindOf(decoded) = TypeKinds[family][t]
      ELSE decoded = Err("UnknownType")

\* The code enum of the types that carry one.
CodeEnums ==
    [ v4 |-> [t \in {3, 5, 11, 12} |->
               CASE t = 3 -> DestinationUnreachableCode
                 [] t = 5 -> RedirectMsgCode
                 [] t = 11 -> TimeExceededCode
                 [] t = 12 -> BadIPHeaderCode],
      v6 |-> [t \in {1, 3, 4} |->
               CASE t = 1 -> DestinationUnreachableV6Code
                 [] t = 3 -> TimeExceededCode
                 [] t = 4 -> ParamProblemCode] ]

\* The number of codes of each of them.
CodeCounts ==
    [ v4 |-> [t \in {3, 5, 11, 12} |->
               CASE t = 3 -> 16 [] t = 5 -> 4 [] t = 11 -> 2 [] t = 12 -> 3],
      v6 |-> [t \in {1, 3, 4} |->
               CASE t = 1 -> 8 [] t = 3 -> 2 [] t = 4 -> 3] ]

CodeField(result) ==
    IF family = "v4" THEN result.val.icmpv4_type.code
    ELSE result.val.icmpv6_type.code

\* C10: for a type that carries a code enum, a code byte outside the enum's
\* range yields UnknownCode, and a code byte n inside it never does: the
\* message decoded carries the n-th value of the enum.
C10_CodeDispatch ==
    (decoded # NotYet /\ Len(msgbytes) >= 2
       /\ msgbytes[1] \in DOMAIN CodeEnums[family]) =>
      LET t == msgbytes[1]
          n == msgbytes[2]
      IN /\ Len(CodeEnums[family][t]) = CodeCounts[family][t]
         /\ IF n >= CodeCounts[family][t]
            THEN decoded = Err("UnknownCode")
            ELSE /\ decoded.tag # "Err"
                 /\ Len(msgbytes) >= 8 =>
                      /\ decoded.tag = "Ok"
                      /\ CodeField(decoded) = CodeEnums[family][t][n + 1]

\* An ICMPv4 redirect whose code byte is the first one past the enum was
\* refused, and so was an ICMPv6 parameter problem.
C10_Witness ==
    /\ decoded = Err("UnknownCode")
    /\ Len(msgbytes) >= 8
    /\ \/ family = "v4" /\ msgbytes[1] = 5 /\ msgbytes[2] = 4
       \/ family = "v6" /\ msgbytes[1] = 4 /\ msgbytes[2] = 3

----------------------------------------------------------------------------
(* Properties of the running program, checked under Spec.                  *)

\* C1: in every reachable state of the running program, the only datagrams
\* read being the replies to its own pings, each after its send_to call,
\* every host record has successful <= pings_sent.
C1_SuccessfulAtMostSent ==
    nstray = 0 =>
      \A k \in DOMAIN hinfos : hinfos[k].successful <= hinfos[k].pings_sent

----------------------------------------------------------------------------
(* Properties of the encoders, checked under SpecEncode.                   *)

\* The type, the checksum and the data of a decoded message of either family.
TypeOf(m) == IF family = "v4" THEN m.icmpv4_type ELSE m.icmpv6_type
ChecksumOf(m) == IF family = "v4" THEN m.icmpv4_checksum ELSE m.checksum
DataOf(m) == IF family = "v4" THEN m.icmpv4_data ELSE m.body

\* C11: decoding what construct_echo_request_v4 / _v6 produced yields an
\* EchoRequest with the same identifier and sequence number, whose data is
\* the payload and whose checksum is bytes 2-3 of the encoding.
C11_EchoRequestRoundTrip ==
    (echo_args # NotYet /\ decoded # NotYet) =>
      /\ decoded.tag = "Ok"
      /\ TypeOf(decoded.val) = [ kind         |-> "EchoRequest",
                                 identifier   |-> echo_args.identifier,
                                 sequence_num |-> echo_args.sequence_num ]
      /\ DataOf(decoded.val) = echo_args.extdata
      /\ ChecksumOf(decoded.val) = 256 * msgbytes[3] + msgbytes[4]

C11_Witness ==
    /\ echo_args # NotYet
    /\ decoded # NotYet
    /\ family = "v4"
    /\ echo_args.identifier = 48879
    /\ echo_args.sequence_num = 258
    /\ Len(echo_args.extdata) = 3

\* The one's-complement sum of the 16-bit big-endian words of `bytes`.
RECURSIVE EndAroundCarry(_)
EndAroundCarry(x) ==
    IF x > 65535 THEN EndAroundCarry((x % 65536) + (x \div 65536)) ELSE x

RECURSIVE WordSum(_)
WordSum(bytes) ==
    IF bytes = <<>> THEN 0
    ELSE (256 * bytes[1]) + bytes[2] + WordSum(SubSeq(bytes, 3, Len(bytes)))

OnesComplementSum(bytes) == EndAroundCarry(WordSum(bytes))

\* C12: the 8-byte ICMPv4 echo header, its checksum computed and written
\* into bytes 2-3, has the one's-complement sum 0xFFFF over its four
\* 16-bit big-endian words.
C12_HeaderSumsToFFFF ==
    (echo_args # NotYet /\ family = "v4" /\ msgbytes # <<>>) =>
      OnesComplementSum(SubSeq(msgbytes, 1, 8)) = 65535

\* C13: the encoding has 8 + len(payload) bytes: the type (8 or 128), a
\* zero code, the identifier in bytes 4-5 and the sequence number in bytes
\* 6-7, both big-endian, then the payload unchanged; bytes 2-3 of a v6
\* encoding are zero.
C13_EncodingLayout ==
    (echo_args # NotYet /\ msgbytes # <<>>) =>
      /\ Len(msgbytes) = 8 + Len(echo_args.extdata)
      /\ msgbytes[1] = IF family = "v4" THEN 8 ELSE 128
      /\ msgbytes[2] = 0
      /\ msgbytes[5] = echo_args.identifier \div 256
      /\ msgbytes[6] = echo_args.identifier % 256
      /\ msgbytes[7] = echo_args.sequence_num \div 256
      /\ msgbytes[8] = echo_args.sequence_num % 256
      /\ SubSeq(msgbytes, 9, Len(msgbytes)) = echo_args.extdata
      /\ family = "v6" => (msgbytes[3] = 0 /\ msgbytes[4] = 0)

C13_Witness ==
    /\ echo_args # NotYet
    /\ msgbytes # <<>>
    /\ family = "v6"
    /\ echo_args.identifier = 256
    /\ echo_args.sequence_num = 65535
    /\ Len(echo_args.extdata) = 2

----------------------------------------------------------------------------
(* Properties of the decoders' field reads, checked under SpecDecode.      *)

\* The big-endian number in the n bytes of msgbytes from offset `start`.
RECURSIVE BigEndianAt(_, _)
BigEndianAt(start, n) ==
    IF n = 0 THEN 0
    ELSE 256 * BigEndianAt(start, n - 1) + msgbytes[start + n]

\* The field `name` of the type `ty` is absent or has the value v.
FieldIs(ty, name, v) == name \in DOMAIN ty => ty[name] = v

----------------------------------------------------------------------------
(* Properties of the table rows, checked under SpecDisplay and SpecFold.   *)

\* The cell of the loss figure in a row without error.
LossCell(row) == row.cells[6]

\* C15: the loss figure of a host is the cell without data when pings_sent
\* is 0, and for pings_sent > 0 and successful <= pings_sent within the u32
\* range it is floor((pings_sent - successful) * 100 / pings_sent), computed
\* without overflow.
C15_LossFigure ==
    [][\A k \in DOMAIN hinfos :
         LET h == hinfos[k] IN
         (~h.last_error.some /\ h.successful <= h.pings_sent) =>
           /\ ~agg_panicked'
           /\ screen' # NotYet
           /\ IF h.pings_sent = 0
              THEN LossCell(screen'.rows[k]).text = "- "
              ELSE /\ LossCell(screen'.rows[k]).text = "%"
                   /\ LossCell(screen'.rows[k]).value =
                        ((h.pings_sent - h.successful) * 100) \div h.pings_sent
      ]_vars

\* The cells of the average and of the jitter in a row without error.
AverageCell(row) == row.cells[3]
JitterCell(row) == row.cells[5]

\* C19: for a host with successful = 0 the average and the jitter are NaN,
\* shown as cells without data, and the table is drawn without a crash; for
\* successful > 0 the average is the sum of the host's latencies in
\* microseconds divided by successful * 1000.
C19_AverageAndJitter ==
    (~agg_panicked /\ screen # NotYet) =>
      \A k \in DOMAIN hinfos :
        LET h == hinfos[k]
            row == screen.rows[k]
        IN IF h.successful = 0
           THEN /\ average(h) = NaN
                /\ jitter(h) = NaN
                /\ ~h.last_error.some =>
                     (AverageCell(row).text = "- " /\ JitterCell(row).text = "- ")
           ELSE average(h) =
                  Fraction(SumOf(LatenciesOf(k - 1, log)), h.successful * 1000)

\* C16: every I/O failure crosses to the aggregator as an Error update with
\* a host index and the kind of the OS error: the sender's step after a
\* failed send appends Error(send_i, kind) to the channel, and the
\* receiver's step in which peek_sender or read fails appends
\* Error(i, kind) for a host i.
C16_IOFailuresBecomeErrors ==
    [][ (main_pc = "display" /\ main_pc' = "display") =>
          /\ (send_pc = "emit" /\ send_res \in SendErrors /\ send_pc' # "emit") =>
               chan' = Append(chan, [from |-> "sender",
                                     ev |-> Error(send_i, send_res)])
          /\ (recv_res' # recv_res /\ recv_res' \in ReceiveErrors) =>
               \E i \in HostIndexes(recv_hosts) :
                 chan' = Append(chan, [from |-> "receiver",
                                       ev |-> Error(i, recv_res')])
      ]_vars

\* The sender's half of C16 alone: a failed send is always reported.
SendFailuresBecomeErrors ==
    [][ (main_pc = "display" /\ main_pc' = "display"
         /\ send_pc = "emit" /\ send_res \in SendErrors /\ send_pc' # "emit") =>
          chan' = Append(chan, [from |-> "sender",
                                ev |-> Error(send_i, send_res)])
      ]_vars

\* The hosts of the argument list a that resolve, in their order.
ResolvedHosts(a) == SelectSeq(a, LAMBDA h : h # 0)

\* C17: a host that fails to resolve at startup is excluded and the others
\* are still monitored: when some host of the arguments resolves, the
\* parsing step goes on to the socket setup with the table of exactly the
\* hosts that resolved.
C17_UnresolvedHostExcluded ==
    [][ (main_pc = "parse" /\ main_pc' # "parse" /\ ResolvedHosts(args) # <<>>) =>
          /\ main_pc' = "mksocket"
          /\ hinfos' = [k \in DOMAIN ResolvedHosts(args) |->
                          NewHostInfo(ResolvedHosts(args)[k])]
      ]_vars

\* Neither thread has taken a step: no ping sent, no datagram read, no
\* update emitted.
NothingScheduled ==
    /\ send_pc = "idle"
    /\ recv_pc = "idle"
    /\ nsent = 0
    /\ nstray = 0
    /\ chan = <<>>
    /\ wire = {}
    /\ recv_res = "none"
    /\ send_res = "none"

\* C18: a socket creation that fails aborts before either thread is
\* scheduled: without a socket nothing has been sent, read or emitted, and
\* after the failure no step is taken at all; the socket is made at most
\* once, and once open it stays open for as long as the process runs.
C18_SocketFailureAbortsBeforeScheduling ==
    [][ /\ socket' = "none" => NothingScheduled'
        /\ (main_pc = "panicked" /\ socket = "none") => UNCHANGED vars
        /\ (main_pc = "mksocket" /\ main_pc' # "mksocket") =>
             /\ socket = "none"
             /\ main_pc' = "display" <=> socket' = "open"
             /\ main_pc' # "display" => (main_pc' = "panicked" /\ socket' = "none")
        /\ socket = "open" =>
             /\ main_pc = "display"
             /\ socket' = "open" \/ (socket' = "closed" /\ main_pc' # "display")
      ]_vars

\* C18's case: the hosts were parsed and the socket could not be made.
C18_Witness ==
    /\ main_pc = "panicked"
    /\ socket = "none"
    /\ hinfos # <<>>

\* C20: the receiver never stops because of what a datagram holds: whatever
\* it reads (unknown type, unknown code, truncated header, data shorter
\* than the 16 bytes of a timestamp, a source that is no host), the
\* receiver thread has not panicked and goes on to the next datagram.
C20_ReceiverNeverStops == recv_pc # "panicked"

\* The update the sender emits for the host at send_i after a send that
\* ended with res.
SenderEventFor(i, res) ==
    [from |-> "sender", ev |-> IF res = "ok" THEN Sent(i) ELSE Error(i, res)]

\* C21: in a sender round every host, in index order, gets exactly one
\* event, Sent(i) after a send that succeeded and Error(i, kind) after one
\* that failed: the send itself emits nothing, the step after it appends
\* that one event and moves to the next host whatever the outcome, the
\* round ends only after the last host, and a new round starts at host 0.
\* No other step puts a sender's event on the channel.
C21_OneEventPerHostPerRound ==
    [][ (main_pc = "display" /\ main_pc' = "display") =>
          /\ (send_pc = "send" /\ send_pc' # "send") =>
               /\ send_pc' = "emit"
               /\ send_i' = send_i
               /\ send_res' \in {"ok"} \cup SendErrors
               /\ chan' = chan
          /\ (send_pc = "emit" /\ send_pc' # "emit") =>
               /\ chan' = Append(chan, SenderEventFor(send_i, send_res))
               /\ IF send_i + 1 < Len(send_hosts)
                  THEN send_pc' = "send" /\ send_i' = send_i + 1
                  ELSE send_pc' = "sleep" /\ send_i' = 0
          /\ (send_pc = "sleep" /\ send_pc' # "sleep") =>
               /\ send_pc' = "send"
               /\ send_i = 0 /\ send_i' = 0
               /\ chan' = chan
          /\ (Len(chan') > Len(chan) /\ chan'[Len(chan')].from = "sender") =>
               send_pc = "emit"
          /\ send_pc' = send_pc => send_i' = send_i
      ]_vars

\* C21's case: the send to host 0 failed, its Error is on the channel, and
\* the send to host 1 of the same round was made.
C21_Witness ==
    /\ send_pc = "emit"
    /\ send_i = 1
    /\ \E k \in DOMAIN chan :
         /\ chan[k].from = "sender"
         /\ chan[k].ev.type = "Error"
         /\ chan[k].ev.i = 0

\* The datagram d with another identifier and sequence number.
WithIdSeq(d, idseq) ==
    [d EXCEPT !.bytes =
       [j \in DOMAIN d.bytes |->
          IF j \in 5 .. 6 THEN u16_to_be_bytes(idseq[1])[j - 4]
          ELSE IF j \in 7 .. 8 THEN u16_to_be_bytes(idseq[2])[j - 6]
          ELSE d.bytes[j]]]

\* The step is the receiver's iteration on the datagram d.
ReceiverReads(d) ==
    /\ main_pc = "display" /\ main_pc' = "display"
    /\ recv_pc = "recv"
    /\ d \in wire
    /\ wire' = wire \ {d}

\* C22: the index of every Received the receiver emits is that of a host
\* whose address is the source address of the datagram read; a datagram
\* from an address no host has produces no update; and what receive_ping
\* returns does not depend on the identifier and the sequence number of
\* the datagram.
C22_ReceivedIndexMatchesSource ==
    [][ \A d \in wire : ReceiverReads(d) =>
          /\ HostsAt(d.src) = {} => chan' = chan
          /\ chan' # chan =>
               LET e == chan'[Len(chan')] IN
               /\ chan' = Append(chan, e)
               /\ e.from = "receiver"
               /\ e.ev.type = "Received"
               /\ e.ev.i \in HostsAt(d.src)
          /\ Len(d.bytes) >= 8 =>
               \A idseq \in ReceiveIdSeqs :
                 receive_ping(WithIdSeq(d, idseq), now', overflow_checks)
                   = receive_ping(d, now', overflow_checks)
      ]_vars

\* C22's case: of two hosts, the reply of the second was read and
\* Received(1, latency) emitted.
C22_Witness ==
    /\ args = <<1, 2>>
    /\ wire = {}
    /\ Len(chan) = 1
    /\ chan[1].from = "receiver"
    /\ chan[1].ev.type = "Received"
    /\ chan[1].ev.i = 1

\* The number the 8 bytes of b from position p hold, big-endian (the first
\* four of them zero, as in every datagram read here).
BigEndian8(b, p) ==
    ((b[p + 4] * 256 + b[p + 5]) * 256 + b[p + 6]) * 256 + b[p + 7]

\* The timestamp in microseconds that the data of the datagram d begins
\* with: 8 bytes of seconds and 8 bytes of sub-second microseconds.
EmbeddedMicros(d) == BigEndian8(d.bytes, 9) * 1000000 + BigEndian8(d.bytes, 17)

\* The lowest index of the hosts at addr.
FirstHostAt(addr) == CHOOSE i \in HostsAt(addr) : \A j \in HostsAt(addr) : i <= j

\* C23: a decoded datagram whose data begins with the seconds S and the
\* sub-second microseconds U, read when the clock says T >= S*1000000 + U
\* (a latency the u64 holds), is reported with the latency
\* T - (S*1000000 + U) exactly; and the reply to what send_ping sent at t0,
\* read at T, with the latency T - t0.
C23_LatencyIsReceiveMinusSend ==
    [][ \A d \in wire : (ReceiverReads(d) /\ ReadsClock(d)) =>
          LET T == now'
              ts == EmbeddedMicros(d)
          IN (T >= ts /\ T - ts <= U64Max) =>
               /\ recv_pc' = "recv"
               /\ receive_ping(d, T, overflow_checks)
                    = Ok([addr |-> d.src, latency |-> T - ts])
               /\ HostsAt(d.src) # {} =>
                    chan' = Append(chan,
                              [from |-> "receiver",
                               ev |-> Received(FirstHostAt(d.src), T - ts)])
               /\ \A t0 \in ReceiveClocks :
                    d.bytes = EchoReplyTo(PingPacket(t0)) => ts = t0
      ]_vars

\* C23's case: a datagram stamped 1 s and 2 us was read at 1 s and 3 us,
\* and the latency reported is 1 us.
C23_Witness ==
    /\ now = 1000003
    /\ Len(chan) = 1
    /\ chan[1].ev.type = "Received"
    /\ chan[1].ev.latency = 1

\* C24: a timestamp later than the receiver's clock gets no special
\* handling: the receiver does not abort, and for a datagram of a monitored
\* host it emits Received with current time minus embedded time, as the
\* u64 of the update holds it.
C24_FutureTimestampSurfaced ==
    [][ \A d \in wire : (ReceiverReads(d) /\ ReadsClock(d)) =>
          LET T == now'
              ts == EmbeddedMicros(d)
          IN T < ts =>
               /\ recv_pc' = "recv"
               /\ HostsAt(d.src) # {} =>
                    chan' = Append(chan,
                              [from |-> "receiver",
                               ev |-> Received(FirstHostAt(d.src),
                                               (T - ts) % U64Mod)])
      ]_vars

\* C25: the channel is a queue and the aggregator applies each update once,
\* in the order of emission: while the aggregator runs, a step either
\* leaves the channel alone, or appends one update to its end and leaves
\* the table alone (a producer), or removes its oldest update and applies
\* exactly that one to the table (the aggregator); the table changes in no
\* other step.
C25_ChannelFifoExactlyOnce ==
    [][ (main_pc = "display" /\ main_pc' = "display") =>
          \/ chan' = chan /\ hinfos' = hinfos
          \/ /\ Len(chan') = Len(chan) + 1
             /\ chan' = Append(chan, chan'[Len(chan')])
             /\ chan'[Len(chan')].from \in {"sender", "receiver"}
             /\ hinfos' = hinfos
          \/ /\ chan # <<>>
             /\ chan' = Tail(chan)
             /\ hinfos' = update_host_info(Head(chan).ev, hinfos, overflow_checks).hinfos
      ]_vars

\* C25's case: two updates of the sender and one of the receiver were
\* applied to the first host.
C25_Witness ==
    /\ main_pc = "display"
    /\ hinfos # <<>>
    /\ hinfos[1].pings_sent = 2
    /\ hinfos[1].successful = 1

\* The table as main built it from the arguments.
StartupTable == [k \in DOMAIN args |-> NewHostInfo(args[k])]

\* C26: only the aggregator changes the HostInfo table: a step that changes
\* it takes an update off the channel and moves neither the sender nor the
\* receiver, and the copies of the hosts the two threads hold stay what
\* they were at startup.
C26_OnlyAggregatorMutatesTable ==
    [][ (main_pc' = "display") =>
          /\ send_hosts' = StartupTable
          /\ recv_hosts' = StartupTable
          /\ (main_pc = "display" /\ hinfos' # hinfos) =>
               /\ chan # <<>>
               /\ chan' = Tail(chan)
               /\ UNCHANGED <<send_pc, send_i, send_res, recv_pc, recv_res,
                              wire, now, nsent, nstray>>
      ]_vars

\* C26's case: the aggregator has changed the table and the threads'
\* copies are as at startup.
C26_Witness ==
    /\ main_pc = "display"
    /\ hinfos # StartupTable
    /\ send_hosts = StartupTable
    /\ recv_hosts = StartupTable

\* C27: populate_checksum terminates for every header slice of at least 4
\* bytes: its carry loop is left (or the call has panicked), also when the
\* byte sum of the slice reaches or exceeds 0xffff.
C27_ChecksumTerminates == <>(cksum_pc \in {"done", "panicked"})

\* The datagram d is an ICMP echo reply (type 0).
IsEchoReply(d) == Len(d.bytes) >= 1 /\ d.bytes[1] = 0

\* C28: the receiver emits Received only for a datagram that is an echo
\* reply: reading a message of another kind puts nothing on the channel,
\* so no host's successful count grows by it.
C28_ReceivedOnlyForEchoReply ==
    [][ \A d \in wire : (ReceiverReads(d) /\ ~IsEchoReply(d)) => chan' = chan
      ]_vars

====
